---- MODULE Spec2Model ----
(***************************************************************************)
(* KMTronic 4-channel relay driver (Kmtronicrelay4channel.py).             *)
(*                                                                         *)
(* RelayControllerStandalone is modelled statement by statement: every     *)
(* library call on the serial handle (open, reset_*_buffer, out_waiting,   *)
(* in_waiting, write, flush, read, close), every sleep and every           *)
(* assignment to a field is one step of the calling thread.  Two           *)
(* specifications share these steps:                                       *)
(*   Spec      one client calls the controller's methods one after the     *)
(*             other, with any arguments;                                  *)
(*   SpecDash  ModernRelayDashboard: the Tk main thread runs the button    *)
(*             handlers, the daemon threads run update_status_loop.        *)
(* SpecDecode runs the read and the decoding of get_status on any bytes.   *)
(***************************************************************************)
EXTENDS Integers, Sequences, FiniteSets, TLC

\* ---------------------------------------------------------------- bounds
\* serial.Serial objects opened in one run
MaxHandles == 2
\* bytes the line can hold unread in a handle's input buffer
MaxInbuf == 4
\* RelayControllerStandalone objects the dashboard constructs in one run
MaxCtl == 2
\* update_status_loop threads alive at one time
MaxWorkers == 2
\* update_status_loop threads alive at one time in the dashboard runs with relay
\* buttons (SpecDash)
MaxPolling == 1
\* relays the user toggles and the board reports ON in the dashboard runs
MaxLive == 1
\* root.after callbacks Tk holds before the main thread runs them
MaxAfter == 4

\* ------------------------------------------------------ program constants
NumRelays == 4
ReplyLen == 4
None == 0
Main == 0

Handles == 1..MaxHandles
Ctls == 1..MaxCtl
Workers == 1..MaxWorkers
Threads == {Main} \cup Workers
Relays == 1..NumRelays
Ports == {"COM3"}
\* relay_number values a caller may pass (255 and -1 stand for any out-of-range value)
RelayInputs == {-1, 0, 1, 2, 3, 4, 5, 255}
\* byte values the line may deliver: ON, OFF, and two that are neither
ByteVals == {0, 1, 2, 255}
\* the byte values of the replies in the protocol runs
LineVals == {0, 1}
\* the four-byte replies of the protocol runs, and of the dashboard runs
Lines == [1..ReplyLen -> LineVals]
DashLines == {line \in Lines : \A i \in 1..ReplyLen : i > MaxLive => line[i] = 0}

VARIABLES
  \* RelayControllerStandalone objects
  nCtl, com_port, connection, is_connected,
  \* serial.Serial objects: opened so far, the port is held, unflushed output
  \* is pending (out_waiting > 0), number of unread input bytes
  nHandles, is_open, out_waiting, in_waiting,
  \* threads: position, pending callers, bound self, method, relay_number, outcome
  pc, stack, this, op, arg, res,
  \* per call: the library calls made on the handle, and the state at call entry
  io, pre, prevOp,
  \* per polling thread and relay: whether a set-channel command for the relay was
  \* written ("written"), and has then updated the cache ("done"), after the
  \* reply the thread holds was read ("no": none was, or the thread holds no reply)
  since,
  \* per polling thread: the number of the controller whose connect started it
  born,
  \* ModernRelayDashboard
  controller, relay_states, status_update_running, enabled, shown, afterq, ix, statuses

ctlVars == <<nCtl, com_port, connection, is_connected>>
handleVars == <<nHandles, is_open, out_waiting, in_waiting>>
threadVars == <<pc, stack, this, op, arg, res>>
callVars == <<io, pre, prevOp>>
dashVars == <<controller, relay_states, status_update_running, enabled, shown, afterq,
              ix, statuses>>
vars == <<ctlVars, handleVars, threadVars, callVars, dashVars, since, born>>

\* ------------------------------------------------------------ values
EmptyMap == [k \in {} |-> "OFF"]
Keys == <<"R1", "R2", "R3", "R4">>
NoRes == [kind |-> "none", exc |-> "", device |-> "", value |-> EmptyMap]
Ok(v) == [kind |-> "ok", exc |-> "", device |-> "", value |-> v]
Exc(e, d) == [kind |-> "exc", exc |-> e, device |-> d, value |-> EmptyMap]

\* the guard of turn_on, turn_off and get_status, negated
GuardNoFlag(c) == connection[c] # None
GuardPasses(c) == is_connected[c] /\ connection[c] # None

\* the link state of a controller: Connected is what the methods' guard accepts
Connected(c) == is_connected[c] /\ connection[c] # None

\* a library call on self.connection can reach the device; any such call may
\* raise (SerialException, OSError), and it does raise on None or a closed port
Usable(c) == connection[c] # None /\ is_open[connection[c]]

Goto(t, l) == pc' = [pc EXCEPT ![t] = l]
Ev(h, f, data, ok, conn) == [h |-> h, f |-> f, data |-> data, ok |-> ok, conn |-> conn]
\* a call on a handle object is recorded; a call on None (AttributeError) is not
Log(t, f, data, ok) ==
  io' = [io EXCEPT ![t] = IF connection[this[t]] = None THEN @
                           ELSE Append(@, Ev(connection[this[t]], f, data, ok,
                                           Connected(this[t])))]

\* the method returns r (a value or an exception) to its caller
Return(t, r) ==
  /\ res' = [res EXCEPT ![t] = r]
  /\ IF stack[t] = <<>>
       THEN pc' = [pc EXCEPT ![t] = "idle"] /\ stack' = stack
       ELSE pc' = [pc EXCEPT ![t] = Head(stack[t])]
            /\ stack' = [stack EXCEPT ![t] = Tail(@)]

\* the close() calls in a log
Closes(log) == Cardinality({i \in 1..Len(log) : log[i].f = "close"})
Snapshot(c) == [connected |-> Connected(c), nHandles |-> nHandles]
NoSnap == [connected |-> FALSE, nHandles |-> 0]
NoPrev == [op |-> "", closes |-> 0, kind |-> "none"]

\* thread w holds a decoded reply it has read and not yet applied to relay n
\* (update_status_loop 625-630)
Pending(w, n) ==
  \/ pc[w] = "loop_626" /\ Keys[n] \in DOMAIN res[w].value
  \/ pc[w] = "loop_630" /\ ix[w] <= n /\ Keys[n] \in DOMAIN statuses[w]
  \/ pc[w] = "loop_631" /\ ix[w] < n /\ Keys[n] \in DOMAIN statuses[w]
NoSince == [n \in Relays |-> "no"]

\* thread t enters method m of controller c with relay_number n
Enter(t, c, m, n, l) ==
  /\ pc' = [pc EXCEPT ![t] = l]
  /\ this' = [this EXCEPT ![t] = c]
  /\ op' = [op EXCEPT ![t] = m]
  /\ arg' = [arg EXCEPT ![t] = n]
  /\ res' = [res EXCEPT ![t] = NoRes]
  /\ io' = [io EXCEPT ![t] = <<>>]
  /\ pre' = [pre EXCEPT ![t] = Snapshot(c)]
  /\ prevOp' = [prevOp EXCEPT ![t] =
                   IF op[t] = "disconnect"
                     THEN [op |-> op[t], closes |-> Closes(io[t]), kind |-> res[t].kind]
                     ELSE NoPrev]

\* ------------------------------------------- RelayControllerStandalone
\* the handle-side effect of close(): the port is released, its buffers dropped
Closed(h) ==
  /\ is_open' = [is_open EXCEPT ![h] = FALSE]
  /\ out_waiting' = [out_waiting EXCEPT ![h] = FALSE]
  /\ in_waiting' = [in_waiting EXCEPT ![h] = 0]
\* close() raises: the library may or may not have released the port
CloseRaised(h) ==
  /\ is_open[h]
  /\ \/ is_open' = is_open /\ UNCHANGED <<out_waiting, in_waiting>>
     \/ /\ is_open' = [is_open EXCEPT ![h] = FALSE]
        /\ out_waiting' = [out_waiting EXCEPT ![h] = FALSE]
        /\ in_waiting' = [in_waiting EXCEPT ![h] = 0]

\* connect, line 27: self.connection = serial.Serial(...); a handle the field held
\* before is no longer referenced, and what its buffers hold can no longer be read
Open(t) ==
  /\ pc[t] = "connect_27"
  /\ \/ /\ nHandles < MaxHandles
        /\ nHandles' = nHandles + 1
        /\ is_open' = [is_open EXCEPT ![nHandles + 1] = TRUE]
        /\ connection' = [connection EXCEPT ![this[t]] = nHandles + 1]
        /\ out_waiting' = [h \in Handles |->
                             IF h = connection[this[t]] THEN FALSE ELSE out_waiting[h]]
        /\ in_waiting' = [h \in Handles |->
                            IF h = connection[this[t]] THEN 0 ELSE in_waiting[h]]
        /\ Goto(t, "connect_35")
     \/ /\ Goto(t, "connect_41")
        /\ UNCHANGED <<nHandles, is_open, connection, out_waiting, in_waiting>>
  /\ UNCHANGED <<nCtl, com_port, is_connected,
                 stack, this, op, arg, res, callVars, dashVars>>
  /\ UNCHANGED <<since, born>>

\* connect, line 35: self.connection.reset_input_buffer()
ConnectResetIn(t) ==
  /\ pc[t] = "connect_35"
  /\ \/ /\ Usable(this[t])
        /\ in_waiting' = [in_waiting EXCEPT ![connection[this[t]]] = 0]
        /\ Log(t, "reset_input_buffer", <<>>, TRUE)
        /\ Goto(t, "connect_36")
     \/ /\ Log(t, "reset_input_buffer", <<>>, FALSE)
        /\ Goto(t, "connect_41")
        /\ UNCHANGED in_waiting
  /\ UNCHANGED <<ctlVars, nHandles, is_open, out_waiting,
                 stack, this, op, arg, res, pre, prevOp, dashVars>>
  /\ UNCHANGED <<since, born>>

\* connect, line 36: self.connection.reset_output_buffer()
ConnectResetOut(t) ==
  /\ pc[t] = "connect_36"
  /\ \/ /\ Usable(this[t])
        /\ out_waiting' = [out_waiting EXCEPT ![connection[this[t]]] = FALSE]
        /\ Log(t, "reset_output_buffer", <<>>, TRUE)
        /\ Goto(t, "connect_37")
     \/ /\ Log(t, "reset_output_buffer", <<>>, FALSE)
        /\ Goto(t, "connect_41")
        /\ UNCHANGED out_waiting
  /\ UNCHANGED <<ctlVars, nHandles, is_open, in_waiting,
                 stack, this, op, arg, res, pre, prevOp, dashVars>>
  /\ UNCHANGED <<since, born>>

\* connect, line 37: time.sleep(0.5)
ConnectSettle(t) ==
  /\ pc[t] = "connect_37"
  /\ Goto(t, "connect_38")
  /\ UNCHANGED <<ctlVars, handleVars, stack, this, op, arg, res, callVars, dashVars>>
  /\ UNCHANGED <<since, born>>

\* connect, lines 38-39: self.is_connected = True; return True
ConnectDone(t) ==
  /\ pc[t] = "connect_38"
  /\ is_connected' = [is_connected EXCEPT ![this[t]] = TRUE]
  /\ Return(t, Ok(EmptyMap))
  /\ UNCHANGED <<nCtl, com_port, connection, handleVars, this, op, arg,
                 callVars, dashVars>>
  /\ UNCHANGED <<since, born>>

\* connect, lines 40-41: except Exception: if self.connection:
ConnectExcept(t) ==
  /\ pc[t] = "connect_41"
  /\ Goto(t, IF connection[this[t]] # None THEN "connect_43" ELSE "connect_47")
  /\ UNCHANGED <<ctlVars, handleVars, stack, this, op, arg, res, callVars, dashVars>>
  /\ UNCHANGED <<since, born>>

\* connect with the close() of lines 42-45 left out
ConnectCleanupSkip(t) ==
  /\ pc[t] = "connect_43"
  /\ Goto(t, "connect_46")
  /\ UNCHANGED <<ctlVars, handleVars, stack, this, op, arg, res, callVars, dashVars>>
  /\ UNCHANGED <<since, born>>
\* connect, lines 42-45: try: self.connection.close() except: pass
ConnectCleanup(t) ==
  /\ pc[t] = "connect_43"
  /\ \/ Closed(connection[this[t]])
        /\ Log(t, "close", <<>>, TRUE)
     \/ CloseRaised(connection[this[t]])
        /\ Log(t, "close", <<>>, FALSE)
  /\ Goto(t, "connect_46")
  /\ UNCHANGED <<ctlVars, nHandles, stack, this, op, arg, res, pre, prevOp, dashVars>>
  /\ UNCHANGED <<since, born>>

\* connect, line 46: self.connection = None
ConnectForget(t) ==
  /\ pc[t] = "connect_46"
  /\ connection' = [connection EXCEPT ![this[t]] = None]
  /\ Goto(t, "connect_47")
  /\ UNCHANGED <<nCtl, com_port, is_connected, handleVars,
                 stack, this, op, arg, res, callVars, dashVars>>
  /\ UNCHANGED <<since, born>>

\* connect, line 47: raise Exception(f"Failed to connect to {self.com_port}: ...")
ConnectRaise(t) ==
  /\ pc[t] = "connect_47"
  /\ Return(t, Exc("ConnectError", com_port[this[t]]))
  /\ UNCHANGED <<ctlVars, handleVars, this, op, arg, callVars, dashVars>>
  /\ UNCHANGED <<since, born>>

\* disconnect with line 53 moved before the close: the flag is cleared first
DisconnectFlagFirst(t) ==
  /\ pc[t] = "disconnect_51"
  /\ IF Usable(this[t])
       THEN /\ is_connected' = [is_connected EXCEPT ![this[t]] = FALSE]
            /\ Goto(t, "disconnect_52") /\ UNCHANGED <<stack, res>>
       ELSE Return(t, Ok(EmptyMap)) /\ UNCHANGED is_connected
  /\ UNCHANGED <<nCtl, com_port, connection, handleVars, this, op, arg, callVars,
                 dashVars>>
  /\ UNCHANGED <<since, born>>

\* disconnect, line 51: if self.connection and self.connection.is_open:
DisconnectTest(t) ==
  /\ pc[t] = "disconnect_51"
  /\ IF Usable(this[t])
       THEN Goto(t, "disconnect_52") /\ UNCHANGED <<stack, res>>
       ELSE Return(t, Ok(EmptyMap))
  /\ UNCHANGED <<ctlVars, handleVars, this, op, arg, callVars, dashVars>>
  /\ UNCHANGED <<since, born>>

\* disconnect, line 52: self.connection.close(); a raised close leaves the method
DisconnectClose(t) ==
  /\ pc[t] = "disconnect_52"
  /\ connection[this[t]] # None
  /\ \/ /\ Closed(connection[this[t]])
        /\ Log(t, "close", <<>>, TRUE)
        /\ Goto(t, "disconnect_53")
        /\ UNCHANGED <<stack, res>>
     \/ /\ CloseRaised(connection[this[t]])
        /\ Log(t, "close", <<>>, FALSE)
        /\ Return(t, Exc("SerialException", ""))
  /\ UNCHANGED <<ctlVars, nHandles, this, op, arg, pre, prevOp, dashVars>>
  /\ UNCHANGED <<since, born>>

\* disconnect, line 53: self.is_connected = False
DisconnectDone(t) ==
  /\ pc[t] = "disconnect_53"
  /\ is_connected' = [is_connected EXCEPT ![this[t]] = FALSE]
  /\ Return(t, Ok(EmptyMap))
  /\ UNCHANGED <<nCtl, com_port, connection, handleVars, this, op, arg,
                 callVars, dashVars>>
  /\ UNCHANGED <<since, born>>

\* turn_on, line 63 / turn_off, line 80: cmd = bytes([0xFF, relay_number, 0x01 | 0x00])
FrameSwapped(m, n) == <<255, IF m = "turn_on" THEN 1 ELSE 0, n>>
Frame(m, n) == <<255, n, IF m = "turn_on" THEN 1 ELSE 0>>
\* get_status, line 98: status_cmd = bytes([0xFF, 0x09, 0x00])
StatusFrame == <<255, 9, 0>>

\* turn_on 59 / turn_off 76: 1 <= relay_number <= 4
ValidRelayFromZero(n) == 0 <= n /\ n <= NumRelays
ValidRelay(n) == 1 <= n /\ n <= NumRelays

\* turn_on 57-60 / turn_off 74-77: the connection guard, then the range check
SetGuard(t) ==
  /\ pc[t] = "set_57"
  /\ IF ~GuardPasses(this[t])
       THEN Return(t, Exc("NotConnected", ""))
       ELSE IF ~ValidRelay(arg[t])
         THEN Return(t, Exc("InvalidChannel", ""))
         ELSE Goto(t, "set_64") /\ UNCHANGED <<stack, res>>
  /\ UNCHANGED <<ctlVars, handleVars, this, op, arg, callVars, dashVars>>
  /\ UNCHANGED <<since, born>>

\* turn_on / turn_off clearing the output buffer whatever out_waiting says
SetOutWaitingAlways(t) ==
  /\ pc[t] = "set_64"
  /\ \/ /\ Usable(this[t])
        /\ Log(t, "out_waiting", <<>>, TRUE)
        /\ Goto(t, "set_65")
        /\ UNCHANGED <<stack, res>>
     \/ /\ Log(t, "out_waiting", <<>>, FALSE)
        /\ Return(t, Exc("Io", ""))
  /\ UNCHANGED <<ctlVars, handleVars, this, op, arg, pre, prevOp, dashVars>>
  /\ UNCHANGED <<since, born>>

\* turn_on 64 / turn_off 81: if self.connection.out_waiting > 0:
SetOutWaiting(t) ==
  /\ pc[t] = "set_64"
  /\ \/ /\ Usable(this[t])
        /\ Log(t, "out_waiting", <<>>, TRUE)
        /\ Goto(t, IF out_waiting[connection[this[t]]] THEN "set_65" ELSE "set_66")
        /\ UNCHANGED <<stack, res>>
     \/ /\ Log(t, "out_waiting", <<>>, FALSE)
        /\ Return(t, Exc("Io", ""))
  /\ UNCHANGED <<ctlVars, handleVars, this, op, arg, pre, prevOp, dashVars>>
  /\ UNCHANGED <<since, born>>

\* turn_on 65 / turn_off 82: self.connection.reset_output_buffer()
SetResetOut(t) ==
  /\ pc[t] = "set_65"
  /\ \/ /\ Usable(this[t])
        /\ out_waiting' = [out_waiting EXCEPT ![connection[this[t]]] = FALSE]
        /\ Log(t, "reset_output_buffer", <<>>, TRUE)
        /\ Goto(t, "set_66")
        /\ UNCHANGED <<stack, res>>
     \/ /\ Log(t, "reset_output_buffer", <<>>, FALSE)
        /\ Return(t, Exc("Io", ""))
        /\ UNCHANGED out_waiting
  /\ UNCHANGED <<ctlVars, nHandles, is_open, in_waiting, this, op, arg,
                 pre, prevOp, dashVars>>
  /\ UNCHANGED <<since, born>>

\* turn_on 66 / turn_off 83: self.connection.write(cmd)
SetWrite(t) ==
  /\ pc[t] = "set_66"
  /\ \/ /\ Usable(this[t])
        /\ out_waiting' = [out_waiting EXCEPT ![connection[this[t]]] = TRUE]
        /\ Log(t, "write", Frame(op[t], arg[t]), TRUE)
        /\ Goto(t, "set_67")
        /\ since' = [w \in Threads |->
                       IF w # t /\ arg[t] \in Relays /\ Pending(w, arg[t])
                         THEN [since[w] EXCEPT ![arg[t]] = "written"]
                         ELSE since[w]]
        /\ UNCHANGED <<stack, res>>
     \/ /\ Log(t, "write", Frame(op[t], arg[t]), FALSE)
        /\ Return(t, Exc("Io", ""))
        /\ UNCHANGED <<out_waiting, since>>
  /\ UNCHANGED <<ctlVars, nHandles, is_open, in_waiting, this, op, arg,
                 pre, prevOp, dashVars, born>>

\* turn_on 67 / turn_off 84: self.connection.flush()
SetFlush(t) ==
  /\ pc[t] = "set_67"
  /\ \/ /\ Usable(this[t])
        /\ out_waiting' = [out_waiting EXCEPT ![connection[this[t]]] = FALSE]
        /\ Log(t, "flush", <<>>, TRUE)
        /\ Goto(t, "set_68")
        /\ UNCHANGED <<stack, res>>
     \/ /\ Log(t, "flush", <<>>, FALSE)
        /\ Return(t, Exc("Io", ""))
        /\ UNCHANGED out_waiting
  /\ UNCHANGED <<ctlVars, nHandles, is_open, in_waiting, this, op, arg,
                 pre, prevOp, dashVars>>
  /\ UNCHANGED <<since, born>>

\* turn_on 68 / turn_off 85: time.sleep(0.3), then the method returns None
SetSettle(t) ==
  /\ pc[t] = "set_68"
  /\ Return(t, Ok(EmptyMap))
  /\ UNCHANGED <<ctlVars, handleVars, this, op, arg, callVars, dashVars>>
  /\ UNCHANGED <<since, born>>

\* get_status 106-109: {f"R{i}": "ON" if byte == 1 else "OFF" for i, byte in enumerate(response, 1)}
DecodeTruthy(response) ==
  [k \in {Keys[i] : i \in 1..Len(response)} |->
     IF response[CHOOSE i \in 1..Len(response) : Keys[i] = k] # 0 THEN "ON" ELSE "OFF"]
Decode(response) ==
  [k \in {Keys[i] : i \in 1..Len(response)} |->
     IF response[CHOOSE i \in 1..Len(response) : Keys[i] = k] = 1 THEN "ON" ELSE "OFF"]

\* get_status 105-111: a reply of exactly four bytes is decoded, any other gives {}
StatusResultPartial(response) == Decode(response)
StatusResult(response) == IF Len(response) = ReplyLen THEN Decode(response) ELSE EmptyMap

\* get_status 91-92: if not self.is_connected or not self.connection: return {}
StatusGuard(t) ==
  /\ pc[t] = "status_91"
  /\ IF ~GuardPasses(this[t])
       THEN Return(t, Ok(EmptyMap))
       ELSE Goto(t, "status_95") /\ UNCHANGED <<stack, res>>
  /\ UNCHANGED <<ctlVars, handleVars, this, op, arg, callVars, dashVars>>
  /\ UNCHANGED <<since, born>>

\* get_status going on to the request whatever in_waiting says
StatusInWaitingSkip(t) ==
  /\ pc[t] = "status_95"
  /\ \/ /\ Usable(this[t])
        /\ Log(t, "in_waiting", <<>>, TRUE)
        /\ Goto(t, "status_99")
        /\ UNCHANGED <<stack, res>>
     \/ /\ Log(t, "in_waiting", <<>>, FALSE)
        /\ Return(t, Ok(EmptyMap))
  /\ UNCHANGED <<ctlVars, handleVars, this, op, arg, pre, prevOp, dashVars>>
  /\ UNCHANGED <<since, born>>

\* get_status 95: if self.connection.in_waiting > 0:   (112-113: except: return {})
StatusInWaiting(t) ==
  /\ pc[t] = "status_95"
  /\ \/ /\ Usable(this[t])
        /\ Log(t, "in_waiting", <<>>, TRUE)
        /\ Goto(t, IF in_waiting[connection[this[t]]] > 0 THEN "status_96" ELSE "status_99")
        /\ UNCHANGED <<stack, res>>
     \/ /\ Log(t, "in_waiting", <<>>, FALSE)
        /\ Return(t, Ok(EmptyMap))
  /\ UNCHANGED <<ctlVars, handleVars, this, op, arg, pre, prevOp, dashVars>>
  /\ UNCHANGED <<since, born>>

\* get_status 96: self.connection.reset_input_buffer()
StatusResetIn(t) ==
  /\ pc[t] = "status_96"
  /\ \/ /\ Usable(this[t])
        /\ in_waiting' = [in_waiting EXCEPT ![connection[this[t]]] = 0]
        /\ Log(t, "reset_input_buffer", <<>>, TRUE)
        /\ Goto(t, "status_99")
        /\ UNCHANGED <<stack, res>>
     \/ /\ Log(t, "reset_input_buffer", <<>>, FALSE)
        /\ Return(t, Ok(EmptyMap))
        /\ UNCHANGED in_waiting
  /\ UNCHANGED <<ctlVars, nHandles, is_open, out_waiting, this, op, arg,
                 pre, prevOp, dashVars>>
  /\ UNCHANGED <<since, born>>

\* get_status 99: self.connection.write(status_cmd)
StatusWrite(t) ==
  /\ pc[t] = "status_99"
  /\ \/ /\ Usable(this[t])
        /\ out_waiting' = [out_waiting EXCEPT ![connection[this[t]]] = TRUE]
        /\ Log(t, "write", StatusFrame, TRUE)
        /\ Goto(t, "status_100")
        /\ UNCHANGED <<stack, res>>
     \/ /\ Log(t, "write", StatusFrame, FALSE)
        /\ Return(t, Ok(EmptyMap))
        /\ UNCHANGED out_waiting
  /\ UNCHANGED <<ctlVars, nHandles, is_open, in_waiting, this, op, arg,
                 pre, prevOp, dashVars>>
  /\ UNCHANGED <<since, born>>

\* get_status 100: self.connection.flush()
StatusFlush(t) ==
  /\ pc[t] = "status_100"
  /\ \/ /\ Usable(this[t])
        /\ out_waiting' = [out_waiting EXCEPT ![connection[this[t]]] = FALSE]
        /\ Log(t, "flush", <<>>, TRUE)
        /\ Goto(t, "status_101")
        /\ UNCHANGED <<stack, res>>
     \/ /\ Log(t, "flush", <<>>, FALSE)
        /\ Return(t, Ok(EmptyMap))
        /\ UNCHANGED out_waiting
  /\ UNCHANGED <<ctlVars, nHandles, is_open, in_waiting, this, op, arg,
                 pre, prevOp, dashVars>>
  /\ UNCHANGED <<since, born>>

\* get_status 101: time.sleep(0.3)
StatusSettle(t) ==
  /\ pc[t] = "status_101"
  /\ Goto(t, "status_103")
  /\ UNCHANGED <<ctlVars, handleVars, stack, this, op, arg, res, callVars, dashVars>>
  /\ UNCHANGED <<since, born>>

\* get_status 103-111: response = self.connection.read(4): the bytes that arrived
\* before the timeout, four at most; then the reply is decoded and returned
StatusRead(t, lines) ==
  /\ pc[t] = "status_103"
  /\ \/ /\ Usable(this[t])
        /\ LET h == connection[this[t]]
               k == IF in_waiting[h] < ReplyLen THEN in_waiting[h] ELSE ReplyLen
           IN /\ in_waiting' = [in_waiting EXCEPT ![h] = @ - k]
              /\ \E response \in {SubSeq(line, 1, k) : line \in lines} :
                   /\ Log(t, "read", response, TRUE)
                   /\ Return(t, Ok(StatusResult(response)))
     \/ /\ Log(t, "read", <<>>, FALSE)
        /\ Return(t, Ok(EmptyMap))
        /\ UNCHANGED in_waiting
  /\ UNCHANGED <<ctlVars, nHandles, is_open, out_waiting, this, op, arg,
                 pre, prevOp, dashVars>>
  /\ UNCHANGED <<since, born>>

\* the methods of RelayControllerStandalone, as steps of thread t
ConnectStep(t) ==
  \/ Open(t) \/ ConnectResetIn(t) \/ ConnectResetOut(t) \/ ConnectSettle(t)
  \/ ConnectDone(t) \/ ConnectExcept(t) \/ ConnectCleanup(t) \/ ConnectForget(t)
  \/ ConnectRaise(t)
DisconnectStep(t) == DisconnectTest(t) \/ DisconnectClose(t) \/ DisconnectDone(t)
SetStep(t) ==
  \/ SetGuard(t) \/ SetOutWaiting(t) \/ SetResetOut(t) \/ SetWrite(t) \/ SetFlush(t)
  \/ SetSettle(t)
StatusStep(t, lines) ==
  \/ StatusGuard(t) \/ StatusInWaiting(t) \/ StatusResetIn(t) \/ StatusWrite(t)
  \/ StatusFlush(t) \/ StatusSettle(t) \/ StatusRead(t, lines)
ControllerStep(t, lines) ==
  ConnectStep(t) \/ DisconnectStep(t) \/ SetStep(t) \/ StatusStep(t, lines)

\* ------------------------------------------------------------ the line
\* a byte from the board (a reply, or noise) arrives in an open handle's input buffer
LineIn(h) ==
  /\ is_open[h]
  /\ \E c \in Ctls : connection[c] = h
  /\ in_waiting[h] < MaxInbuf
  /\ in_waiting' = [in_waiting EXCEPT ![h] = @ + 1]
  /\ UNCHANGED <<ctlVars, nHandles, is_open, out_waiting,
                 threadVars, callVars, dashVars>>
  /\ UNCHANGED <<since, born>>

\* the interpreter finalizes a serial.Serial object nothing refers to: io.IOBase's
\* finalizer calls close(); when it runs is up to the interpreter
Finalize(h) ==
  /\ is_open[h]
  /\ \A c \in Ctls : connection[c] # h
  /\ Closed(h)
  /\ UNCHANGED <<ctlVars, nHandles, threadVars, callVars, dashVars>>
  /\ UNCHANGED <<since, born>>

\* ------------------------------------------------ Spec: one sequential client
\* the client calls a method of its controller; relay_number is any RelayInputs value
CallConnect ==
  /\ pc[Main] = "idle" /\ nHandles < MaxHandles
  /\ Enter(Main, 1, "connect", 0, "connect_27")
  /\ UNCHANGED <<ctlVars, handleVars, stack, dashVars>>
  /\ UNCHANGED <<since, born>>
CallDisconnect ==
  /\ pc[Main] = "idle"
  /\ Enter(Main, 1, "disconnect", 0, "disconnect_51")
  /\ UNCHANGED <<ctlVars, handleVars, stack, dashVars>>
  /\ UNCHANGED <<since, born>>
CallTurnOn ==
  /\ pc[Main] = "idle"
  /\ \E n \in RelayInputs : Enter(Main, 1, "turn_on", n, "set_57")
  /\ UNCHANGED <<ctlVars, handleVars, stack, dashVars>>
  /\ UNCHANGED <<since, born>>
CallTurnOff ==
  /\ pc[Main] = "idle"
  /\ \E n \in RelayInputs : Enter(Main, 1, "turn_off", n, "set_57")
  /\ UNCHANGED <<ctlVars, handleVars, stack, dashVars>>
  /\ UNCHANGED <<since, born>>
CallGetStatus ==
  /\ pc[Main] = "idle"
  /\ Enter(Main, 1, "get_status", 0, "status_91")
  /\ UNCHANGED <<ctlVars, handleVars, stack, dashVars>>
  /\ UNCHANGED <<since, born>>

\* __init__, lines 17-22 (the controller), and 154-156 (the dashboard's fields)
InitCommon ==
  /\ connection = [c \in Ctls |-> None]
  /\ is_connected = [c \in Ctls |-> FALSE]
  /\ nHandles = 0
  /\ is_open = [h \in Handles |-> FALSE]
  /\ out_waiting = [h \in Handles |-> FALSE]
  /\ in_waiting = [h \in Handles |-> 0]
  /\ pc = [t \in Threads |-> IF t = Main THEN "idle" ELSE "unborn"]
  /\ stack = [t \in Threads |-> <<>>]
  /\ this = [t \in Threads |-> 1]
  /\ op = [t \in Threads |-> ""]
  /\ arg = [t \in Threads |-> 0]
  /\ res = [t \in Threads |-> NoRes]
  /\ io = [t \in Threads |-> <<>>]
  /\ pre = [t \in Threads |-> NoSnap]
  /\ prevOp = [t \in Threads |-> NoPrev]
  /\ controller = None
  /\ relay_states = [n \in Relays |-> FALSE]
  /\ status_update_running = FALSE
  /\ shown = [n \in Relays |-> FALSE]
  /\ afterq = <<>>
  /\ enabled = FALSE
  /\ ix = [t \in Threads |-> 0]
  /\ statuses = [t \in Threads |-> EmptyMap]
  /\ since = [t \in Threads |-> NoSince]
  /\ born = [t \in Threads |-> 0]

\* the client holds one controller, RelayControllerStandalone(port)
Init ==
  /\ InitCommon
  /\ nCtl = 1
  /\ \E p \in Ports : com_port = [c \in Ctls |-> p]

Next ==
  \/ CallConnect \/ CallDisconnect \/ CallTurnOn \/ CallTurnOff \/ CallGetStatus
  \/ ControllerStep(Main, Lines)
  \/ \E h \in Handles : LineIn(h)
  \/ \E h \in Handles : Finalize(h)

Spec == Init /\ [][Next]_vars

\* ------------------------------------------- SpecDecode: read and decode
\* get_status with its request sent (lines 95-101 done) and any number of reply
\* bytes in the input buffer; the read and the decoding follow, on any byte values
InitDecode ==
  /\ nCtl = 1
  /\ \E p \in Ports : com_port = [c \in Ctls |-> p]
  /\ connection = [c \in Ctls |-> IF c = 1 THEN 1 ELSE None]
  /\ is_connected = [c \in Ctls |-> c = 1]
  /\ nHandles = 1
  /\ is_open = [h \in Handles |-> h = 1]
  /\ out_waiting = [h \in Handles |-> FALSE]
  /\ \E k \in 0..MaxInbuf : in_waiting = [h \in Handles |-> IF h = 1 THEN k ELSE 0]
  /\ pc = [t \in Threads |-> IF t = Main THEN "status_103" ELSE "unborn"]
  /\ stack = [t \in Threads |-> <<>>]
  /\ this = [t \in Threads |-> 1]
  /\ op = [t \in Threads |-> IF t = Main THEN "get_status" ELSE ""]
  /\ arg = [t \in Threads |-> 0]
  /\ res = [t \in Threads |-> NoRes]
  /\ io = [t \in Threads |-> IF t = Main
                              THEN <<Ev(1, "in_waiting", <<>>, TRUE, TRUE),
                                     Ev(1, "write", StatusFrame, TRUE, TRUE),
                                     Ev(1, "flush", <<>>, TRUE, TRUE)>>
                              ELSE <<>>]
  /\ pre = [t \in Threads |-> IF t = Main THEN [connected |-> TRUE, nHandles |-> 1]
                                          ELSE NoSnap]
  /\ prevOp = [t \in Threads |-> NoPrev]
  /\ controller = None
  /\ relay_states = [n \in Relays |-> FALSE]
  /\ status_update_running = FALSE
  /\ shown = [n \in Relays |-> FALSE]
  /\ afterq = <<>>
  /\ enabled = FALSE
  /\ ix = [t \in Threads |-> 0]
  /\ statuses = [t \in Threads |-> EmptyMap]
  /\ since = [t \in Threads |-> NoSince]
  /\ born = [t \in Threads |-> 0]

NextDecode == StatusRead(Main, [1..ReplyLen -> ByteVals])

SpecDecode == InitDecode /\ [][NextDecode]_vars

\* ------------------------------------- SpecDash: ModernRelayDashboard
\* if self.controller and self.controller.is_connected  (480, 543, 555, 567, 623, 639)
DashLinked == IF controller = None THEN FALSE ELSE is_connected[controller]

\* thread t calls method m of controller c and continues at k when it returns
Call(t, c, m, n, l, k) ==
  /\ Enter(t, c, m, n, l)
  /\ stack' = [stack EXCEPT ![t] = <<k>> \o @]

\* the caller has consumed the outcome of the call: the call's record is dropped
Forget(t) ==
  /\ this' = [this EXCEPT ![t] = 1]
  /\ op' = [op EXCEPT ![t] = ""]
  /\ arg' = [arg EXCEPT ![t] = 0]
  /\ res' = [res EXCEPT ![t] = NoRes]
  /\ io' = [io EXCEPT ![t] = <<>>]
  /\ pre' = [pre EXCEPT ![t] = NoSnap]
  /\ prevOp' = [prevOp EXCEPT ![t] = NoPrev]

\* toggle_connection 480-483 (else) and connect 487-494: the Connect button with a
\* port selected; self.controller = RelayControllerStandalone(port), then
\* self.controller.connect()
ClickConnect(slots) ==
  /\ pc[Main] = "idle"
  /\ ~DashLinked
  /\ nCtl < MaxCtl /\ nHandles < MaxHandles
  /\ \E w \in 1..slots : pc[w] = "unborn"
  /\ \E p \in Ports :
       /\ nCtl' = nCtl + 1
       /\ com_port' = [com_port EXCEPT ![nCtl + 1] = p]
       /\ controller' = nCtl + 1
       /\ Call(Main, nCtl + 1, "connect", 0, "connect_27", "dash_497")
  /\ UNCHANGED <<connection, is_connected, handleVars, relay_states,
                 status_update_running, enabled, shown, afterq, ix, statuses>>
  /\ UNCHANGED <<since, born>>

\* connect 497-509: the widgets show "Connected" and the relay buttons are
\* enabled; 516-517: except Exception: messagebox.showerror(...)
DashConnected ==
  /\ pc[Main] = "dash_497"
  /\ IF res[Main].kind = "ok"
       THEN enabled' = TRUE /\ Goto(Main, "dash_512")
       ELSE enabled' = enabled /\ Goto(Main, "idle")
  /\ Forget(Main)
  /\ UNCHANGED <<ctlVars, handleVars, stack, controller, relay_states,
                 status_update_running, shown, afterq, ix, statuses>>
  /\ UNCHANGED <<since, born>>

\* connect 512: self.status_update_running = True
DashRun ==
  /\ pc[Main] = "dash_512"
  /\ status_update_running' = TRUE
  /\ Goto(Main, "dash_513")
  /\ UNCHANGED <<ctlVars, handleVars, stack, this, op, arg, res, callVars, controller,
                 relay_states, enabled, shown, afterq, ix, statuses>>
  /\ UNCHANGED <<since, born>>

\* connect 513-515: threading.Thread(target=self.update_status_loop,
\* daemon=True).start(); messagebox.showinfo(...)
DashStartThread ==
  /\ pc[Main] = "dash_513"
  /\ LET w == CHOOSE v \in Workers :
                /\ pc[v] = "unborn"
                /\ \A u \in Workers : pc[u] = "unborn" => v <= u
     IN /\ pc' = [pc EXCEPT ![Main] = "idle", ![w] = "loop_622"]
        /\ born' = [born EXCEPT ![w] = controller]
  /\ UNCHANGED <<ctlVars, handleVars, stack, this, op, arg, res, callVars, dashVars>>
  /\ UNCHANGED since

\* toggle_connection 480-481 and disconnect 521-523: the Disconnect button;
\* self.status_update_running = False, then self.controller.disconnect()
ClickDisconnect ==
  /\ pc[Main] = "idle"
  /\ DashLinked
  /\ status_update_running' = FALSE
  /\ Call(Main, controller, "disconnect", 0, "disconnect_51", "dash_526")
  /\ UNCHANGED <<ctlVars, handleVars, controller, relay_states, enabled, shown,
                 afterq, ix, statuses>>
  /\ UNCHANGED <<since, born>>

\* disconnect clearing the cached states together with the relay widgets
DashDisconnectedReset ==
  /\ pc[Main] = "dash_526"
  /\ IF res[Main].kind = "ok"
       THEN /\ enabled' = FALSE /\ shown' = [n \in Relays |-> FALSE]
            /\ relay_states' = [n \in Relays |-> FALSE]
       ELSE UNCHANGED <<enabled, shown, relay_states>>
  /\ Goto(Main, "idle")
  /\ Forget(Main)
  /\ UNCHANGED <<ctlVars, handleVars, stack, controller,
                 status_update_running, afterq, ix, statuses>>
  /\ UNCHANGED <<since, born>>

\* disconnect 526-539: the widgets show "Disconnected", the relay buttons are
\* disabled and update_relay_ui(i, False) runs for every relay; an exception of
\* controller.disconnect() leaves the handler before any of it
DashDisconnected ==
  /\ pc[Main] = "dash_526"
  /\ IF res[Main].kind = "ok"
       THEN enabled' = FALSE /\ shown' = [n \in Relays |-> FALSE]
       ELSE UNCHANGED <<enabled, shown>>
  /\ Goto(Main, "idle")
  /\ Forget(Main)
  /\ UNCHANGED <<ctlVars, handleVars, stack, controller, relay_states,
                 status_update_running, afterq, ix, statuses>>
  /\ UNCHANGED <<since, born>>

\* toggle_relay 543-551 and turn_relay_on / turn_relay_off 555-559, 567-571: a
\* relay's button; the cached state chooses controller.turn_off or turn_on
ClickToggle(n) ==
  /\ pc[Main] = "idle"
  /\ enabled
  /\ IF DashLinked
       THEN Call(Main, controller, IF relay_states[n] THEN "turn_off" ELSE "turn_on",
                 n, "set_57", "dash_560")
       ELSE UNCHANGED <<threadVars, callVars>>
  /\ UNCHANGED <<ctlVars, handleVars, dashVars>>
  /\ UNCHANGED <<since, born>>

\* turn_relay_on / turn_relay_off with the cache written whatever the outcome
DashSetDoneAlways ==
  /\ pc[Main] = "dash_560"
  /\ relay_states' = [relay_states EXCEPT ![arg[Main]] = (op[Main] = "turn_on")]
  /\ shown' = [shown EXCEPT ![arg[Main]] = (op[Main] = "turn_on")]
  /\ UNCHANGED <<since, born>>
  /\ Goto(Main, "idle")
  /\ Forget(Main)
  /\ UNCHANGED <<ctlVars, handleVars, stack, controller, status_update_running,
                 enabled, afterq, ix, statuses>>

\* turn_relay_on 560-563, turn_relay_off 572-575: self.relay_states[n] = True /
\* False and update_relay_ui(n, ...); except Exception: messagebox.showerror(...)
DashSetDone ==
  /\ pc[Main] = "dash_560"
  /\ IF res[Main].kind = "ok"
       THEN /\ relay_states' = [relay_states EXCEPT ![arg[Main]] = (op[Main] = "turn_on")]
            /\ shown' = [shown EXCEPT ![arg[Main]] = (op[Main] = "turn_on")]
            /\ since' = [w \in Threads |->
                           IF since[w][arg[Main]] = "written"
                             THEN [since[w] EXCEPT ![arg[Main]] = "done"]
                             ELSE since[w]]
       ELSE UNCHANGED <<relay_states, shown, since>>
  /\ Goto(Main, "idle")
  /\ Forget(Main)
  /\ UNCHANGED <<ctlVars, handleVars, stack, controller, status_update_running,
                 enabled, afterq, ix, statuses, born>>

\* root.destroy() ends mainloop and the process: the daemon threads end with it
Exit ==
  /\ pc' = [t \in Threads |-> IF t = Main THEN "closed" ELSE "unborn"]
  /\ stack' = [t \in Threads |-> <<>>]
  /\ this' = [t \in Threads |-> 1]
  /\ op' = [t \in Threads |-> ""]
  /\ arg' = [t \in Threads |-> 0]
  /\ res' = [t \in Threads |-> NoRes]
  /\ io' = [t \in Threads |-> <<>>]
  /\ pre' = [t \in Threads |-> NoSnap]
  /\ prevOp' = [t \in Threads |-> NoPrev]
  /\ afterq' = <<>>
  /\ ix' = [t \in Threads |-> 0]
  /\ statuses' = [t \in Threads |-> EmptyMap]
  /\ since' = [t \in Threads |-> NoSince]
  /\ born' = [t \in Threads |-> 0]

\* on_closing 638-641: the window is closed
ClickClose ==
  /\ pc[Main] = "idle"
  /\ status_update_running' = FALSE
  /\ IF DashLinked
       THEN /\ Call(Main, controller, "disconnect", 0, "disconnect_51", "dash_641")
            /\ UNCHANGED <<afterq, ix, statuses, since, born>>
       ELSE Exit
  /\ UNCHANGED <<ctlVars, handleVars, controller, relay_states, enabled, shown>>

\* on_closing 641: self.root.destroy(), unless controller.disconnect() raised
DashClosed ==
  /\ pc[Main] = "dash_641"
  /\ IF res[Main].kind = "ok"
       THEN Exit
       ELSE /\ Goto(Main, "idle")
            /\ Forget(Main)
            /\ UNCHANGED <<stack, afterq, ix, statuses, since, born>>
  /\ UNCHANGED <<ctlVars, handleVars, controller, relay_states,
                 status_update_running, enabled, shown>>

\* mainloop runs a callback queued by root.after(0, self.update_relay_ui, n, is_on)
RunAfter ==
  /\ pc[Main] = "idle"
  /\ afterq # <<>>
  /\ shown' = [shown EXCEPT ![Head(afterq)[1]] = Head(afterq)[2]]
  /\ afterq' = Tail(afterq)
  /\ UNCHANGED <<ctlVars, handleVars, threadVars, callVars, controller, relay_states,
                 status_update_running, enabled, ix, statuses>>
  /\ UNCHANGED <<since, born>>

\* update_status_loop 622: while self.status_update_running; the thread ends
\* when the flag is off
LoopTest(w) ==
  /\ pc[w] = "loop_622"
  /\ Goto(w, IF status_update_running THEN "loop_623" ELSE "unborn")
  /\ born' = [born EXCEPT ![w] = IF status_update_running THEN @ ELSE 0]
  /\ UNCHANGED <<ctlVars, handleVars, stack, this, op, arg, res, callVars, dashVars>>
  /\ UNCHANGED since

\* update_status_loop 623: if self.controller and self.controller.is_connected
LoopLinked(w) ==
  /\ pc[w] = "loop_623"
  /\ Goto(w, IF DashLinked THEN "loop_625" ELSE "loop_634")
  /\ UNCHANGED <<ctlVars, handleVars, stack, this, op, arg, res, callVars, dashVars>>
  /\ UNCHANGED <<since, born>>

\* update_status_loop 625: statuses = self.controller.get_status()
LoopQuery(w) ==
  /\ pc[w] = "loop_625"
  /\ Call(w, controller, "get_status", 0, "status_91", "loop_626")
  /\ UNCHANGED <<ctlVars, handleVars, dashVars>>
  /\ UNCHANGED <<since, born>>

\* update_status_loop 626-628: the first relay_num from i on whose key is in st
NextKey(st, i) ==
  IF \E j \in i..NumRelays : Keys[j] \in DOMAIN st
    THEN CHOOSE j \in i..NumRelays :
           /\ Keys[j] \in DOMAIN st
           /\ \A k \in i..NumRelays : Keys[k] \in DOMAIN st => j <= k
    ELSE NumRelays + 1

\* update_status_loop 625-628: get_status has returned; for relay_num in range(1, 5)
LoopGot(w) ==
  /\ pc[w] = "loop_626"
  /\ LET st == res[w].value
         i == NextKey(st, 1)
     IN IF i <= NumRelays
          THEN /\ statuses' = [statuses EXCEPT ![w] = st]
               /\ ix' = [ix EXCEPT ![w] = i]
               /\ Goto(w, "loop_630")
               /\ UNCHANGED since
          ELSE /\ UNCHANGED <<statuses, ix>>
               /\ Goto(w, "loop_634")
               /\ since' = [since EXCEPT ![w] = NoSince]
  /\ Forget(w)
  /\ UNCHANGED <<ctlVars, handleVars, stack, controller, relay_states,
                 status_update_running, enabled, shown, afterq, born>>

\* update_status_loop 629-630: is_on = statuses[key] == "ON";
\* self.relay_states[relay_num] = is_on
LoopCache(w) ==
  /\ pc[w] = "loop_630"
  /\ relay_states' = [relay_states EXCEPT ![ix[w]] = (statuses[w][Keys[ix[w]]] = "ON")]
  /\ Goto(w, "loop_631")
  /\ UNCHANGED <<ctlVars, handleVars, stack, this, op, arg, res, callVars, controller,
                 status_update_running, enabled, shown, afterq, ix, statuses>>
  /\ since' = [since EXCEPT ![w][ix[w]] = "no"]
  /\ UNCHANGED born

\* update_status_loop 631: self.root.after(0, self.update_relay_ui, relay_num, is_on)
LoopAfter(w) ==
  /\ pc[w] = "loop_631"
  /\ Len(afterq) < MaxAfter
  /\ afterq' = Append(afterq, <<ix[w], statuses[w][Keys[ix[w]]] = "ON">>)
  /\ LET i == NextKey(statuses[w], ix[w] + 1)
     IN IF i <= NumRelays
          THEN /\ ix' = [ix EXCEPT ![w] = i]
               /\ statuses' = statuses
               /\ Goto(w, "loop_630")
               /\ UNCHANGED since
          ELSE /\ ix' = [ix EXCEPT ![w] = 0]
               /\ statuses' = [statuses EXCEPT ![w] = EmptyMap]
               /\ Goto(w, "loop_634")
               /\ since' = [since EXCEPT ![w] = NoSince]
  /\ UNCHANGED <<ctlVars, handleVars, stack, this, op, arg, res, callVars, controller,
                 relay_states, status_update_running, enabled, shown, born>>

\* update_status_loop 634: time.sleep(1.0)
LoopSleep(w) ==
  /\ pc[w] = "loop_634"
  /\ Goto(w, "loop_622")
  /\ UNCHANGED <<ctlVars, handleVars, stack, this, op, arg, res, callVars, dashVars>>
  /\ UNCHANGED <<since, born>>

\* the board answers a status request that has been flushed to it: its four-byte
\* reply arrives in the handle's input buffer
BoardReply(h) ==
  /\ is_open[h]
  /\ in_waiting[h] = 0
  /\ \E t \in Threads : /\ pc[t] \in {"status_101", "status_103"}
                        /\ connection[this[t]] = h
  /\ in_waiting' = [in_waiting EXCEPT ![h] = ReplyLen]
  /\ UNCHANGED <<ctlVars, nHandles, is_open, out_waiting,
                 threadVars, callVars, dashVars>>
  /\ UNCHANGED <<since, born>>

\* ModernRelayDashboard.__init__ 148-159 and main 644-649: no controller yet
InitDash ==
  /\ InitCommon
  /\ nCtl = 0
  /\ \E p \in Ports : com_port = [c \in Ctls |-> p]

\* the user presses Connect / Disconnect, the buttons of relays 1..MaxLive and
\* closes the window; All ON and All OFF (577-585), which are turn_relay_on /
\* turn_relay_off for relays 1 to 4 in turn, are not pressed in these runs
NextDash ==
  \/ ClickConnect(MaxPolling) \/ DashConnected \/ DashRun \/ DashStartThread
  \/ ClickDisconnect \/ DashDisconnected
  \/ \E n \in 1..MaxLive : ClickToggle(n)
  \/ DashSetDone
  \/ ClickClose \/ DashClosed
  \/ RunAfter
  \/ \E t \in Threads : ControllerStep(t, DashLines)
  \/ \E w \in Workers : \/ LoopTest(w) \/ LoopLinked(w) \/ LoopQuery(w) \/ LoopGot(w)
                        \/ LoopCache(w) \/ LoopAfter(w) \/ LoopSleep(w)
  \/ \E h \in Handles : BoardReply(h)
  \/ \E h \in Handles : Finalize(h)

SpecDash == InitDash /\ [][NextDash]_vars

\* ------------------------- SpecPool: the dashboard's polling threads
\* the user presses Connect and Disconnect only, and the board reports every
\* relay OFF; up to MaxWorkers polling threads can be alive
PoolLines == {[i \in 1..ReplyLen |-> 0]}

NextPool ==
  \/ ClickConnect(MaxWorkers) \/ DashConnected \/ DashRun \/ DashStartThread
  \/ ClickDisconnect \/ DashDisconnected
  \/ RunAfter
  \/ ConnectStep(Main) \/ DisconnectStep(Main)
  \/ \E w \in Workers : StatusStep(w, PoolLines)
  \/ \E w \in Workers : \/ LoopTest(w) \/ LoopLinked(w) \/ LoopQuery(w) \/ LoopGot(w)
                        \/ LoopCache(w) \/ LoopAfter(w) \/ LoopSleep(w)
  \/ \E h \in Handles : BoardReply(h)
  \/ \E h \in Handles : Finalize(h)

SpecPool == InitDash /\ [][NextPool]_vars

\* ================================================================ claims
SetOps == {"turn_on", "turn_off"}
Returned(t) == pc[t] = "idle" /\ res[t].kind # "none"
WritesOf(log) == SelectSeq(log, LAMBDA e : e.f = "write")
Raised(log) == \E i \in 1..Len(log) : ~log[i].ok
AllKeys == {"R1", "R2", "R3", "R4"}

\* the positions of get_status from its buffer clear to its read (95-103), and of
\* turn_on / turn_off from the buffer clear to the end of the settle delay (64-68)
StatusRegion == {"status_95", "status_96", "status_99", "status_100", "status_101",
                 "status_103"}
SetRegion == {"set_64", "set_65", "set_66", "set_67", "set_68"}

\* C1: a frame (a set-channel command or a status request) is written to the
\* serial handle only while the link state of its controller is Connected: every
\* write call that succeeded, by the main thread or by a polling thread, was made
\* while is_connected was set and the connection field held a handle.
C1_WriteOnlyConnected ==
  \A t \in Threads : \A i \in 1..Len(io[t]) :
    (io[t][i].f = "write" /\ io[t][i].ok) => io[t][i].conn
\* the poll has written its request while the main thread is about to close the handle
C1_Witness ==
  \E w \in Workers :
    /\ pc[w] = "status_100"
    /\ io[w] # <<>>
    /\ io[w][Len(io[w])] = Ev(1, "write", StatusFrame, TRUE, TRUE)
    /\ pc[Main] = "disconnect_52"
    /\ this[Main] = this[w]

\* C2: a set-channel call (turn_on / turn_off) with a channel in 1..4 entered while
\* Connected writes the frame [0xFF, channel, 1 if on else 0] and nothing else: at
\* every moment of the call its write calls are at most one, carrying exactly that
\* frame; the call that returns normally, and the call in which no library call
\* raised, has made exactly that one write.
C2_ExactFrame ==
  op[Main] \in SetOps =>
    LET w == WritesOf(io[Main])
        frame == <<255, arg[Main], IF op[Main] = "turn_on" THEN 1 ELSE 0>>
    IN /\ Len(w) <= 1
       /\ \A i \in 1..Len(w) : w[i].data = frame
       /\ (Returned(Main) /\ res[Main].kind = "ok") => (Len(w) = 1 /\ w[1].ok)
       /\ (Returned(Main) /\ pre[Main].connected /\ arg[Main] \in 1..4
             /\ ~Raised(io[Main])) => (Len(w) = 1 /\ res[Main].kind = "ok")
C2_Witness ==
  /\ Returned(Main) /\ op[Main] = "turn_off" /\ arg[Main] = 3
  /\ res[Main].kind = "ok"
  /\ WritesOf(io[Main]) = <<Ev(1, "write", <<255, 3, 0>>, TRUE, TRUE)>>

\* C3 as stated: every set-channel call with a channel outside 1..4 fails with
\* InvalidChannel and makes no call on the handle.
C3_Original ==
  (Returned(Main) /\ op[Main] \in SetOps /\ arg[Main] \notin 1..4) =>
    (res[Main].kind = "exc" /\ res[Main].exc = "InvalidChannel" /\ io[Main] = <<>>)
\* C3 amended: a set-channel call with a channel outside 1..4 fails with
\* InvalidChannel when it is entered while Connected and with NotConnected
\* otherwise (the connection guard comes first); in both cases no call is made on
\* the handle (no clear, write or flush), so every set-channel frame written
\* carries a channel byte in 1..4.
C3_InvalidChannel ==
  /\ (op[Main] \in SetOps /\ arg[Main] \notin 1..4) => io[Main] = <<>>
  /\ (Returned(Main) /\ op[Main] \in SetOps /\ arg[Main] \notin 1..4) =>
       /\ res[Main].kind = "exc"
       /\ res[Main].exc = IF pre[Main].connected THEN "InvalidChannel" ELSE "NotConnected"
  /\ op[Main] \in SetOps =>
       \A i \in 1..Len(io[Main]) :
         io[Main][i].f = "write" => io[Main][i].data[2] \in 1..4
C3_Witness ==
  /\ Returned(Main) /\ op[Main] = "turn_on" /\ arg[Main] = 255
  /\ pre[Main].connected
  /\ res[Main].exc = "InvalidChannel" /\ io[Main] = <<>>

\* C4: a set-channel call entered while the link is Disconnected fails with
\* NotConnected, get_status entered while Disconnected returns the empty mapping,
\* and neither makes any call on the serial handle; a link that has opened no
\* handle yet is Disconnected.
C4_NotConnected ==
  /\ (op[Main] \in SetOps \cup {"get_status"} /\ pc[Main] # "idle"
        /\ pre[Main].nHandles = 0) => ~pre[Main].connected
  /\ (op[Main] \in SetOps \cup {"get_status"} /\ ~pre[Main].connected) =>
       io[Main] = <<>>
  /\ (Returned(Main) /\ op[Main] \in SetOps /\ ~pre[Main].connected) =>
       res[Main] = Exc("NotConnected", "")
  /\ (Returned(Main) /\ op[Main] = "get_status" /\ ~pre[Main].connected) =>
       res[Main] = Ok(EmptyMap)
C4_Witness ==
  /\ Returned(Main) /\ op[Main] = "turn_on" /\ arg[Main] = 2
  /\ nHandles = 1 /\ ~is_open[1] /\ ~is_connected[1]
  /\ res[Main].exc = "NotConnected" /\ io[Main] = <<>>

\* C5: when get_status has read a full 4-byte reply, its result has exactly the
\* keys R1..R4, and R(i+1) is ON iff the byte at offset i is exactly 1.
C5_Decode ==
  (Returned(Main) /\ op[Main] = "get_status" /\ io[Main] # <<>>) =>
    LET e == io[Main][Len(io[Main])]
    IN (e.f = "read" /\ e.ok /\ Len(e.data) = 4) =>
         /\ DOMAIN res[Main].value = AllKeys
         /\ \A i \in 0..3 : (res[Main].value[Keys[i + 1]] = "ON") <=> (e.data[i + 1] = 1)
C5_Witness ==
  /\ Returned(Main) /\ op[Main] = "get_status"
  /\ io[Main][Len(io[Main])].data = <<1, 2, 255, 0>>
  /\ res[Main].value = [k \in AllKeys |-> IF k = "R1" THEN "ON" ELSE "OFF"]

\* C6: get_status never raises and never returns a partial mapping: its result is
\* the empty mapping or a mapping of all four keys, and it is the empty mapping
\* whenever the link was Disconnected, a library call raised (clear, write, flush,
\* read) or fewer than 4 bytes were read.
C6_EmptyOrComplete ==
  (Returned(Main) /\ op[Main] = "get_status") =>
    /\ res[Main].kind = "ok"
    /\ res[Main].value = EmptyMap \/ DOMAIN res[Main].value = AllKeys
    /\ ( \/ ~pre[Main].connected
         \/ Raised(io[Main])
         \/ \E i \in 1..Len(io[Main]) :
              io[Main][i].f = "read" /\ Len(io[Main][i].data) < 4 )
         => res[Main].value = EmptyMap
C6_Witness ==
  /\ Returned(Main) /\ op[Main] = "get_status"
  /\ Len(io[Main]) = 4 /\ io[Main][4].f = "read" /\ io[Main][4].ok
  /\ Len(io[Main][4].data) = 2
  /\ res[Main] = Ok(EmptyMap)

\* C7: whenever connect fails, the link is Disconnected afterwards, a handle opened
\* during the attempt has had close() called on it, and the error is the connect
\* error naming the device.
C7_ConnectFailure ==
  (Returned(Main) /\ op[Main] = "connect" /\ res[Main].kind = "exc") =>
    /\ ~Connected(this[Main])
    /\ res[Main].exc = "ConnectError" /\ res[Main].device = com_port[this[Main]]
    /\ nHandles > pre[Main].nHandles =>
         \E i \in 1..Len(io[Main]) : io[Main][i].f = "close" /\ io[Main][i].h = nHandles
C7_Witness ==
  /\ Returned(Main) /\ op[Main] = "connect" /\ res[Main].kind = "exc"
  /\ nHandles = 1 /\ pre[Main].nHandles = 0
  /\ io[Main] = <<Ev(1, "reset_input_buffer", <<>>, TRUE, FALSE),
                  Ev(1, "reset_output_buffer", <<>>, FALSE, FALSE),
                  Ev(1, "close", <<>>, TRUE, FALSE)>>

\* C8 as stated: disconnect called twice in a row, or on a link that never
\* connected, raises nothing, calls close() at most once in total and leaves the
\* link Disconnected.
C8_Idempotent ==
  (Returned(Main) /\ op[Main] = "disconnect"
     /\ (prevOp[Main].op = "disconnect" \/ nHandles = 0)) =>
    /\ res[Main].kind = "ok" /\ prevOp[Main].kind # "exc"
    /\ prevOp[Main].closes + Closes(io[Main]) <= 1
    /\ ~Connected(this[Main])

\* C9 as stated: disconnect never raises, and the link is Disconnected when it
\* returns, also when close() fails.
C9_NeverRaises ==
  (Returned(Main) /\ op[Main] = "disconnect") =>
    (res[Main].kind = "ok" /\ ~Connected(this[Main]))

\* C10 as stated: a status query of the polling thread, from its buffer clear to its
\* read, never overlaps a set-channel command of the main thread that has started
\* and not finished its write, flush and settle delay on the same handle.
C10_NoOverlap ==
  \A w \in Workers :
    ~(/\ pc[w] \in StatusRegion
      /\ pc[Main] \in SetRegion
      /\ connection[this[w]] = connection[this[Main]])

\* C11 as stated: when disconnect returns while a polling thread is inside a
\* status query on the same controller (past the guard, before its read has
\* returned), the link is Disconnected and its handle is closed; and a status
\* query that returns after the port has gone returns the empty mapping, never an
\* exception.
C11_MidPollDisconnect ==
  [][ /\ (/\ pc[Main] \in {"disconnect_51", "disconnect_52", "disconnect_53"}
          /\ pc'[Main] \in {"dash_526", "dash_641"}
          /\ \E w \in Workers : pc[w] \in StatusRegion /\ this[w] = this[Main])
           => /\ ~(is_connected'[this[Main]] /\ connection'[this[Main]] # None)
              /\ ~(connection'[this[Main]] # None /\ is_open'[connection'[this[Main]]])
      /\ \A w \in Workers :
           (pc[w] \in StatusRegion /\ pc'[w] = "loop_626" /\ ~Usable(this[w]))
             => res'[w] = Ok(EmptyMap) ]_vars

\* C12: a set-channel call of the dashboard in which the clear, the write or the
\* flush fails ends with the I/O command error, and no step of the main thread
\* from the entry of the call to the end of the handler changes the cached state
\* of any channel.
C12_FailedSetKeepsCache ==
  [][ /\ (pc[Main] \in {"set_65", "set_66", "set_67"} /\ pc'[Main] = "dash_560")
           => res'[Main] = Exc("Io", "")
      /\ (pc[Main] \in {"set_57"} \cup SetRegion /\ pc'[Main] # pc[Main])
           => relay_states' = relay_states
      /\ (pc[Main] = "dash_560" /\ pc'[Main] # pc[Main] /\ res[Main].kind = "exc")
           => relay_states' = relay_states ]_vars
\* turn_off of relay 1 has failed in its flush and the cache still says ON
C12_Witness ==
  /\ pc[Main] = "dash_560" /\ op[Main] = "turn_off" /\ arg[Main] = 1
  /\ res[Main] = Exc("Io", "")
  /\ io[Main][Len(io[Main])].f = "flush" /\ ~io[Main][Len(io[Main])].ok
  /\ relay_states[1]

\* the main thread ends a set-channel command for relay n; polling thread w applies
\* its reply to the cached state of relay n (line 630)
SetEnds(n) == pc[Main] = "dash_560" /\ pc'[Main] = "idle" /\ arg[Main] = n
Applies(w, n) == pc[w] = "loop_630" /\ pc'[w] = "loop_631" /\ ix[w] = n

\* C13 as stated: a successful set-channel command for ch leaves the commanded
\* value in the cache, and the cached state of ch then changes only by the next
\* set-channel command for ch or by a status reply decoded after it: never by a
\* reply that was already read when the command was written.
C13_CacheRoundTrip ==
  [][ /\ (pc[Main] = "dash_560" /\ pc'[Main] = "idle" /\ res[Main].kind = "ok")
           => relay_states'[arg[Main]] = (op[Main] = "turn_on")
      /\ \A n \in Relays :
           relay_states'[n] # relay_states[n] =>
             \/ SetEnds(n)
             \/ \E w \in Workers : Applies(w, n) /\ since[w][n] # "done" ]_vars

\* C14 as stated: between the calls of a client that calls connect and disconnect
\* in any order, every serial handle that is open is the one the link refers to:
\* no handle opened earlier remains open once the link no longer references it.
C14_OneOpenHandle ==
  pc[Main] = "idle" =>
    \A h \in Handles : is_open[h] => connection[1] = h

\* the names of the library calls in a log, in order
Calls(log) == [i \in 1..Len(log) |-> log[i].f]

\* C15: in a set-channel call of a single-threaded client the output buffer is
\* cleared exactly when unflushed bytes are pending; a call that returns normally
\* has, in this order, cleared (if pending), written its frame once, flushed,
\* and waited the settle delay (it returns from line 68 / 85); and no frame is
\* written while an earlier frame of the call is still before the end of its
\* settle delay.
C15_SetOrder ==
  [][ op[Main] \in SetOps =>
        /\ (pc[Main] = "set_64" /\ pc'[Main] = "set_65")
             => out_waiting[connection[this[Main]]]
        /\ (pc[Main] = "set_64" /\ pc'[Main] = "set_66")
             => ~out_waiting[connection[this[Main]]]
        /\ (pc[Main] # "idle" /\ pc'[Main] = "idle" /\ res'[Main].kind = "ok")
             => /\ pc[Main] = "set_68"
                /\ Calls(io[Main]) \in
                     {<<"out_waiting", "write", "flush">>,
                      <<"out_waiting", "reset_output_buffer", "write", "flush">>}
                /\ ~Raised(io[Main])
                /\ WritesOf(io[Main])[1].data = Frame(op[Main], arg[Main])
        /\ Len(WritesOf(io'[Main])) > Len(WritesOf(io[Main]))
             => (pc[Main] = "set_66" /\ WritesOf(io[Main]) = <<>>) ]_vars
\* a successful turn_on that found unflushed bytes and cleared them first
C15_Witness ==
  /\ Returned(Main) /\ op[Main] = "turn_on" /\ res[Main].kind = "ok"
  /\ Calls(io[Main]) = <<"out_waiting", "reset_output_buffer", "write", "flush">>

\* C16: in a status query of a single-threaded client the input buffer is cleared
\* exactly when it holds unread bytes, so the request is written with none of the
\* bytes left that were there when the query was called; the read asks for four
\* bytes and takes no more; and a query that returns a decoded reply has, in this
\* order, cleared (if needed), written exactly [0xFF, 0x09, 0x00], flushed, waited
\* the settle delay and read exactly four bytes.
C16_StatusOrder ==
  [][ op[Main] = "get_status" =>
        /\ (pc[Main] = "status_95" /\ pc'[Main] = "status_99")
             => in_waiting[connection[this[Main]]] = 0
        /\ (pc[Main] = "status_95" /\ pc'[Main] = "status_96")
             => in_waiting[connection[this[Main]]] > 0
        /\ (pc[Main] = "status_96" /\ pc'[Main] = "status_99")
             => in_waiting'[connection[this[Main]]] = 0
        /\ (pc[Main] = "status_103" /\ pc'[Main] = "idle")
             => LET e == io'[Main][Len(io'[Main])]
                    h == connection[this[Main]]
                IN /\ e.f = "read"
                   /\ e.ok => /\ Len(e.data) = in_waiting[h] - in_waiting'[h]
                               /\ Len(e.data) <= 4
        /\ (pc[Main] # "idle" /\ pc'[Main] = "idle" /\ res'[Main].value # EmptyMap)
             => /\ pc[Main] = "status_103"
                /\ Calls(io'[Main]) \in
                     {<<"in_waiting", "write", "flush", "read">>,
                      <<"in_waiting", "reset_input_buffer", "write", "flush", "read">>}
                /\ ~Raised(io'[Main])
                /\ WritesOf(io'[Main])[1].data = <<255, 9, 0>>
                /\ Len(io'[Main][Len(io'[Main])].data) = 4 ]_vars
\* a query that found stale bytes, cleared them and then decoded a full reply
C16_Witness ==
  /\ Returned(Main) /\ op[Main] = "get_status"
  /\ Calls(io[Main]) = <<"in_waiting", "reset_input_buffer", "write", "flush", "read">>
  /\ DOMAIN res[Main].value = AllKeys

\* C17: the cached relay states change only in two kinds of step: the end of a
\* set-channel command that succeeded, which changes the commanded channel to
\* the commanded value, and the application of a complete four-key status reply
\* by a polling thread, which changes one channel to the replied value. A failed
\* command, a query that returned the empty mapping, connect and disconnect
\* change none.
C17_CacheFrame ==
  [][ relay_states' # relay_states =>
        \/ /\ pc[Main] = "dash_560" /\ pc'[Main] = "idle" /\ res[Main].kind = "ok"
           /\ relay_states' = [relay_states EXCEPT ![arg[Main]] = (op[Main] = "turn_on")]
        \/ \E w \in Workers :
             /\ Applies(w, ix[w])
             /\ DOMAIN statuses[w] = AllKeys
             /\ relay_states' = [relay_states EXCEPT
                                   ![ix[w]] = (statuses[w][Keys[ix[w]]] = "ON")] ]_vars
\* the dashboard has disconnected and the cache still holds relay 1 ON
C17_Witness ==
  /\ pc[Main] = "idle" /\ ~enabled /\ nCtl = 1 /\ ~is_connected[1]
  /\ nHandles = 1 /\ ~is_open[1]
  /\ relay_states[1]

\* C18 as stated: between the calls of a client, is_connected is true exactly when
\* the controller holds a handle that is open.
C18_FlagMatchesHandle ==
  pc[Main] = "idle" => (is_connected[1] <=> Usable(1))

\* C19 as stated: a polling thread started by an earlier connect never starts
\* another status query once a later connect has started its own polling thread:
\* it has exited by then, or exits without polling again.
C19_OnePoller ==
  [][ \A w \in Workers :
        (pc[w] = "loop_625" /\ pc'[w] = "status_91")
          => ~\E v \in Workers : pc[v] # "unborn" /\ born[v] > born[w] ]_vars

\* C20 as stated: the polling thread never applies to the cached state of
\* relay n (line 630) a reply it requested before a command for n that has
\* since succeeded and updated the cache (lines 560, 572).
C20_NoStaleReply ==
  [][ \A w \in Workers : \A n \in Relays :
        Applies(w, n) => since[w][n] # "done" ]_vars

\* the dashboard's disconnect (519-539) has completed and no connect has
\* succeeded since: the flag is off, the relay buttons are disabled and the
\* main thread is back in mainloop
DashOffline == pc[Main] = "idle" /\ ~enabled /\ ~status_update_running

\* update_status_loop 631: thread w queues a display update
Schedules(w) == pc[w] = "loop_631" /\ Len(afterq') = Len(afterq) + 1

\* C21 as stated: while the dashboard is disconnected the polling thread
\* changes no cached relay state (line 630) and queues no display update
\* (line 631).
C21_QuietAfterDisconnect ==
  [][ DashOffline =>
        \A w \in Workers :
          /\ \A n \in Relays : Applies(w, n) => relay_states'[n] = relay_states[n]
          /\ ~Schedules(w) ]_vars

\* the dashboard is at rest: the main thread is in mainloop with no queued
\* update_relay_ui callback, and no polling thread is inside a query or its
\* for loop (625-631)
DashIdle ==
  /\ pc[Main] = "idle"
  /\ afterq = <<>>
  /\ \A w \in Workers : pc[w] \in {"unborn", "loop_622", "loop_623", "loop_634"}

\* C22 as stated: whenever the dashboard is idle, the state displayed for each
\* relay equals its cached relay_states value, also after disconnect and after
\* a later reconnect.
C22_DisplayMatchesCache ==
  DashIdle => \A n \in Relays : shown[n] = relay_states[n]

====
